---- MODULE Spec2Model ----
(***************************************************************************)
(* The task store of task-glitch: the useTasks hook (load-time             *)
(* normalization, add / update / delete / undo / clear-history) modelled   *)
(* as a state machine.  One action is one call of a hook callback followed *)
(* by the React commit that the call schedules; the initial load is one    *)
(* action that runs when the fetch settles.                                *)
(*                                                                         *)
(* Encoding of JavaScript values:                                          *)
(*   - string-valued fields hold TLA+ strings, Undefined stands for the    *)
(*     JavaScript value undefined;                                         *)
(*   - numbers are integers, NaN is a reserved integer;                    *)
(*   - a timestamp is the number of days since an arbitrary origin (an ISO *)
(*     string and the instant it denotes are the same integer), NoTime is  *)
(*     an undefined timestamp, InvalidDate is new Date(<unparsable>);      *)
(*   - a nullable task (lastDeleted) is a sequence of length 0 or 1.       *)
(* Every task carries a field uid that the program does not have: it names *)
(* the object, so that properties can follow one task through the store.   *)
(***************************************************************************)
EXTENDS Integers, Sequences, FiniteSets, TLC

\* ---------------------------------------------------------------- bounds
MaxRaw == 3        \* longest raw array the fetch delivers
MaxCalls == 3      \* most calls of the hook's callbacks in one run
MaxNow == 6        \* last instant the clock reaches
RandRange == 2     \* Math.random() * 10000 takes values 0 .. RandRange-1
SeedCount == 2     \* generateSalesTasks(50) delivers SeedCount tasks
MaxDelivered == 3  \* most calls of onDelete the table makes in one run

\* ------------------------------------------------------ JavaScript values
Undefined == "undefined"
NoTime == -1
InvalidDate == -2
NaN == -1000
NullNum == -1001
Now0 == 5
Day == 1
NoError == "null"
Null == <<>>
NullId == "null"

Some(t) == <<t>>

Truthy(v) == v # Undefined /\ v # ""

\* Number(v) of a raw JSON value given by its text
Number(v) ==
  CASE v = "5" -> 5
    [] v = "0" -> 0
    [] v = "-3" -> -3
    [] OTHER -> NaN

\* a ?? b
Coalesce(a, b) == IF a = NullNum THEN b ELSE a

\* a >= 0 on JavaScript numbers (false for NaN)
GeZero(a) == a # NaN /\ a >= 0

\* new Date(v).getTime() of a raw JSON value given by its text
DateOf(v) ==
  CASE v = "d3" -> 3
    [] v = "d4" -> 4
    [] v = "d50" -> 50
    [] OTHER -> InvalidDate

\* new Date(ms): an invalid date stays invalid under arithmetic
DatePlus(d, k) == IF d = InvalidDate THEN InvalidDate ELSE d + k

\* Date.prototype.toISOString throws RangeError on an invalid date
IsoThrows(d) == d = InvalidDate

\* ------------------------------------------------------------ raw records
\* a record with nothing but a title
RawX ==
  [id |-> Undefined, title |-> "X", revenue |-> Undefined, timeTaken |-> Undefined,
   priority |-> Undefined, status |-> Undefined, notes |-> Undefined,
   createdAt |-> Undefined, completedAt |-> Undefined]

\* a Done record without dates, with a non-numeric revenue and a negative timeTaken
RawA ==
  [id |-> "a", title |-> "A", revenue |-> "abc", timeTaken |-> "-3",
   priority |-> "High", status |-> "Done", notes |-> "n",
   createdAt |-> Undefined, completedAt |-> Undefined]

\* a Todo record created in the future that carries a completedAt
RawB ==
  [id |-> "b", title |-> "B", revenue |-> "5", timeTaken |-> "0",
   priority |-> "Low", status |-> "Todo", notes |-> Undefined,
   createdAt |-> "d50", completedAt |-> "d4"]

\* a record whose createdAt is no date
RawG ==
  [id |-> "b", title |-> "G", revenue |-> "5", timeTaken |-> "abc",
   priority |-> "Low", status |-> "Done", notes |-> Undefined,
   createdAt |-> "garbage", completedAt |-> Undefined]

RawRecords == {RawX, RawA, RawB, RawG}

\* every raw array of at most MaxRaw records
RawArrays == UNION { [1..n -> RawRecords] : n \in 0..MaxRaw }

\* the raw arrays the store is exercised on
FixtureArrays ==
  { <<>>, <<RawX>>, <<RawB>>, <<RawG>>, <<RawA, RawA, RawB>>, <<RawX, RawB, RawA>> }

\* ------------------------------------------------------------------ state
VARIABLES
  tasks,        \* useState<Task[]>([])            the canonical collection
  loading,      \* useState(true)
  error,        \* useState<string | null>(null)
  lastDeleted,  \* useState<Task | null>(null)
  fetchedRef,   \* useRef(false)
  isMounted,    \* the effect's local flag
  pc,           \* where load() is: "fetching" or "settled"
  closure,      \* the lastDeleted that the current undoDelete callback captured
  now,          \* Date.now()
  nextUid,      \* the next object name (not program state)
  lastOp,       \* the call that made this state (not program state)
  rt,           \* progress of an add / delete / undo round trip (not program state)
  dd,           \* the latest consecutive matching deletes (not program state)
  calls,        \* how many callbacks have been called (not program state)
  fetched,      \* what the load that just settled was given (not program state)
  distinctLoad, \* the load installed tasks with pairwise distinct ids (not program state)
  deleteId,     \* TaskTable: useState<string | null>(null), the id awaiting confirmation
  clicked,      \* TaskTable: the row whose delete button was clicked last (not program state)
  confirms,     \* TaskTable: onDelete calls since the dialog opened (not program state)
  delivered,    \* TaskTable: the ids onDelete was called with (not program state)
  lastUi        \* TaskTable: the last event of the table (not program state)

\* the state of the TaskTable component and its observers
tableVars == <<deleteId, clicked, confirms, delivered, lastUi>>

vars == <<tasks, loading, error, lastDeleted, fetchedRef, isMounted, pc, closure,
          now, nextUid, lastOp, rt, dd, calls, fetched, distinctLoad, tableVars>>

\* ---------------------------------------------------------------- helpers
Range(s) == { s[i] : i \in DOMAIN s }

HasId(ts, id) == \E i \in DOMAIN ts : ts[i].id = id

Uids(ts) == { ts[i].uid : i \in DOMAIN ts }

\* no two tasks of ts share an id
DistinctIds(ts) == \A i, j \in DOMAIN ts : ts[i].id = ts[j].id => i = j

\* { ...a, ...b }
Merge(a, b) ==
  [f \in DOMAIN a \cup DOMAIN b |-> IF f \in DOMAIN b THEN b[f] ELSE a[f]]

\* prev.find(t => t.id === id) || null
Find(ts, id) ==
  IF HasId(ts, id)
  THEN Some(ts[CHOOSE i \in DOMAIN ts : ts[i].id = id /\ \A j \in 1..(i-1) : ts[j].id # id])
  ELSE Null

\* prev.filter(t => t.id !== id)
Filter(ts, id) == SelectSeq(ts, LAMBDA t : t.id # id)

\* --------------------------------------------------------- normalizeTasks
\* Created with the index forgotten: every synthesized date is one day back
Created_NoIndex(t, i, n) ==
  IF Truthy(t.createdAt) THEN DateOf(t.createdAt) ELSE n - Day

\* line 52: the created Date of the record at (1-based) position i
Created(t, i, n) ==
  IF Truthy(t.createdAt) THEN DateOf(t.createdAt) ELSE n - i * Day

\* line 53: t.completedAt || (Done ? created + 1 day : undefined)
Completed(t, i, n) ==
  IF Truthy(t.completedAt) THEN DateOf(t.completedAt)
  ELSE IF t.status = "Done" THEN DatePlus(Created(t, i, n), Day)
  ELSE NoTime

\* lines 53 and 62: toISOString() of an invalid Date throws
NormalizeThrows(input, n) ==
  \E i \in DOMAIN input : IsoThrows(Created(input[i], i, n))

\* line 57: Number(t.revenue) ?? 0
Revenue(t) == Coalesce(Number(t.revenue), 0)

\* line 58: Number(t.timeTaken) >= 0 ? Number(t.timeTaken) : 0
TimeTaken(t) == IF GeZero(Number(t.timeTaken)) THEN Number(t.timeTaken) ELSE 0

NormalizeRecord(t, i, n, u) ==
  [uid |-> u + i - 1,
   id |-> t.id,
   title |-> t.title,
   revenue |-> Revenue(t),
   timeTaken |-> TimeTaken(t),
   priority |-> t.priority,
   status |-> t.status,
   notes |-> t.notes,
   createdAt |-> Created(t, i, n),
   completedAt |-> Completed(t, i, n)]

\* the value normalizeTasks returns when it does not throw
normalizeTasks(input, n, u) ==
  [i \in DOMAIN input |-> NormalizeRecord(input[i], i, n, u)]

\* generateSalesTasks(count): internally consistent synthetic tasks
generateSalesTasks(count, n, u) ==
  [i \in 1..count |->
    [uid |-> u + i - 1,
     id |-> "seed-" \o ToString(i),
     title |-> "Seed",
     revenue |-> 5,
     timeTaken |-> 5,
     priority |-> "Low",
     status |-> "Todo",
     notes |-> Undefined,
     createdAt |-> n - i * Day,
     completedAt |-> NoTime]]

\* ------------------------------------------------------------------- load
HttpMessage == "Failed to load tasks.json (404)"
DefaultMessage == "Failed to load tasks"

\* what the awaited fetch and res.json() deliver
FetchOutcomes ==
  { [kind |-> "reject", message |-> m, isArray |-> FALSE, data |-> <<>>] :
      m \in {"Failed to fetch", Undefined} }
  \cup { [kind |-> "http", message |-> HttpMessage, isArray |-> FALSE, data |-> <<>>] }
  \cup { [kind |-> "json", message |-> Undefined, isArray |-> FALSE, data |-> <<>>] }
  \cup { [kind |-> "json", message |-> Undefined, isArray |-> TRUE, data |-> d] :
           d \in RawArrays }

\* the fetch outcomes the store is exercised on
Fixtures ==
  { o \in FetchOutcomes : (o.kind = "json" /\ o.isArray) => o.data \in FixtureArrays }

\* the body of try { ... } catch: what load() computes before it writes state
LoadResult(o, n, u) ==
  IF o.kind = "reject" \/ o.kind = "http"
  THEN [ok |-> FALSE,
        message |-> IF o.message = Undefined THEN DefaultMessage ELSE o.message,
        data |-> <<>>]
  ELSE LET input == IF o.isArray THEN o.data ELSE <<>> IN
       IF NormalizeThrows(input, n)
       THEN [ok |-> FALSE, message |-> "Invalid time value", data |-> <<>>]
       ELSE LET normalized == normalizeTasks(input, n, u) IN
            [ok |-> TRUE, message |-> Undefined,
             data |-> IF Len(normalized) > 0 THEN normalized
                      ELSE generateSalesTasks(SeedCount, n, u)]

\* the last call: its name, its patch, whether its id matched a task, the status of
\* the first task it matched, whether a deletion was pending when it was made, and
\* the time it was made at
NoOp ==
  [name |-> "init", patch |-> <<>>, hit |-> FALSE, was |-> "-", pend |-> FALSE,
   at |-> Now0]
Op(name, id, patch) ==
  [name |-> name, patch |-> patch, hit |-> HasId(tasks, id),
   was |-> IF HasId(tasks, id) THEN Find(tasks, id)[1].status ELSE "-",
   pend |-> lastDeleted # Null,
   at |-> now]

NoFetch ==
  [kind |-> "none", message |-> Undefined, isArray |-> FALSE, data |-> <<>>,
   at |-> Now0, mounted |-> FALSE]

RtIdle == [stage |-> 0, task |-> Null, pre |-> <<>>]
DdIdle == [dels |-> <<>>, undo |-> FALSE]

\* TaskTable.tsx line 27: no id awaits confirmation, the dialog is closed
TableInit ==
  /\ deleteId = NullId
  /\ clicked = NullId
  /\ confirms = 0
  /\ delivered = <<>>
  /\ lastUi = "none"

Init ==
  /\ tasks = <<>>
  /\ loading = TRUE
  /\ error = NoError
  /\ lastDeleted = Null
  /\ fetchedRef = FALSE
  /\ isMounted = TRUE
  /\ pc = "fetching"
  /\ closure = Null
  /\ now = Now0
  /\ nextUid = 1
  /\ lastOp = NoOp
  /\ rt = RtIdle
  /\ dd = DdIdle
  /\ calls = 0
  /\ fetched = NoFetch
  /\ distinctLoad = FALSE
  /\ TableInit

\* lines 77, 79 and 81: if (isMounted), the test before each write of load()
MayWrite_Always == TRUE

MayWrite == isMounted

\* loading set false in the try block only, not in finally
LoadingAfter_OnlyOnSuccess(r, l) == IF r.ok THEN FALSE ELSE l

\* lines 80-82: finally { setLoading(false) }, whatever the try block did
LoadingAfter(r, l) == FALSE

\* lines 70-86: load() resumes when the fetch settles, and writes state in one batch
LoadSettle(o) ==
  /\ pc = "fetching"
  /\ pc' = "settled"
  /\ LET r == LoadResult(o, now, nextUid) IN
     /\ IF MayWrite
        THEN /\ tasks' = IF r.ok THEN r.data ELSE tasks
             /\ error' = IF r.ok THEN error ELSE r.message
             /\ loading' = LoadingAfter(r, loading)
             /\ fetchedRef' = TRUE
        ELSE UNCHANGED <<tasks, error, loading, fetchedRef>>
     /\ nextUid' = IF r.ok /\ MayWrite THEN nextUid + Len(r.data) ELSE nextUid
     /\ distinctLoad' = (r.ok /\ MayWrite /\ DistinctIds(r.data))
  /\ lastOp' = [NoOp EXCEPT !.name = "load"]
  /\ rt' = RtIdle
  /\ dd' = DdIdle
  /\ fetched' = Merge(o, [at |-> now, mounted |-> isMounted])
  /\ UNCHANGED <<lastDeleted, isMounted, closure, now, calls, tableVars>>

\* lines 88-90: the effect's cleanup
Unmount ==
  /\ isMounted
  /\ isMounted' = FALSE
  /\ lastOp' = [NoOp EXCEPT !.name = "unmount"]
  /\ UNCHANGED <<tasks, loading, error, lastDeleted, fetchedRef, pc, closure, now,
                 nextUid, rt, dd, calls, fetched, distinctLoad, tableVars>>

\* the clock advances
Tick ==
  /\ now < MaxNow
  /\ now' = now + 1
  /\ UNCHANGED <<tasks, loading, error, lastDeleted, fetchedRef, isMounted, pc, closure,
                 nextUid, lastOp, rt, dd, calls, fetched, distinctLoad, tableVars>>

\* a callback is called on the mounted hook
Called ==
  /\ isMounted
  /\ calls < MaxCalls
  /\ calls' = calls + 1
  /\ fetched' = NoFetch

\* ---------------------------------------------------------------- addTask
\* lines 38-40: 'task-' + Date.now() + '-' + Math.floor(Math.random() * 10000)
generateId(n, r) == "task-" \o ToString(n) \o "-" \o ToString(r)

\* what callers pass to addTask
Payloads ==
  { [id |-> i, title |-> "N", revenue |-> 7, timeTaken |-> 2, priority |-> "High",
     status |-> sc[1], notes |-> Undefined, createdAt |-> sc[2], completedAt |-> sc[2]] :
      i \in {Undefined, "a"}, sc \in {<<"Todo", 3>>, <<"Done", NoTime>>} }

\* NewTask with the payload's createdAt and completedAt kept
NewTask_KeepsPayloadDates(task, n, r, u) ==
  LET id == IF task.id = Undefined THEN generateId(n, r) ELSE task.id
  IN Merge(task, [uid |-> u, id |-> id, timeTaken |-> task.timeTaken])

\* lines 114-120: the task addTask builds from its payload
NewTask(task, n, r, u) ==
  LET id == IF task.id = Undefined THEN generateId(n, r) ELSE task.id
      createdAt == n
      completedAt == IF task.status = "Done" THEN createdAt ELSE NoTime
  IN Merge(task, [uid |-> u, id |-> id, timeTaken |-> task.timeTaken,
                  createdAt |-> createdAt, completedAt |-> completedAt])

\* lines 110-125
AddTask(task, r) ==
  /\ Called
  /\ LET newTask == NewTask(task, now, r, nextUid) IN
     /\ tasks' = <<newTask>> \o tasks
     /\ lastOp' = Op("addTask", newTask.id, <<>>)
     /\ rt' = IF loading THEN RtIdle
              ELSE [stage |-> 1, task |-> Some(newTask), pre |-> tasks]
  /\ nextUid' = nextUid + 1
  /\ closure' = lastDeleted
  /\ dd' = DdIdle
  /\ UNCHANGED <<loading, error, lastDeleted, fetchedRef, isMounted, pc, now,
                 distinctLoad, tableVars>>

\* ------------------------------------------------------------- updateTask
\* what callers pass to updateTask: a patch names some fields of Task
Patches ==
  { [status |-> "Done"],
    [status |-> "Todo"],
    [status |-> "Done", completedAt |-> 4],
    [completedAt |-> NoTime],
    [id |-> "b", title |-> "T", createdAt |-> 4] }

\* Updated without the test !merged.completedAt: every move to Done stamps the time
Updated_AlwaysStamp(t, patch, n) ==
  LET merged == Merge(t, patch) IN
  IF t.status # "Done" /\ merged.status = "Done"
  THEN [merged EXCEPT !.completedAt = n]
  ELSE merged

\* Updated without the stamp: the merge alone
Updated_NeverStamp(t, patch, n) == Merge(t, patch)

\* lines 131-135: the task that replaces a matching task t
Updated(t, patch, n) ==
  LET merged == Merge(t, patch) IN
  IF t.status # "Done" /\ merged.status = "Done" /\ merged.completedAt = NoTime
  THEN [merged EXCEPT !.completedAt = n]
  ELSE merged

\* UpdateAll without the test t.id !== id: the patch reaches every task
UpdateAll_NoIdTest(ts, id, patch, n) ==
  [i \in DOMAIN ts |-> Updated(ts[i], patch, n)]

\* UpdateAll that hands the tasks back in reverse order
UpdateAll_Reversed(ts, id, patch, n) ==
  [i \in DOMAIN ts |->
     IF ts[Len(ts) + 1 - i].id # id THEN ts[Len(ts) + 1 - i]
     ELSE Updated(ts[Len(ts) + 1 - i], patch, n)]

\* lines 129-136: prev.map(...)
UpdateAll(ts, id, patch, n) ==
  [i \in DOMAIN ts |-> IF ts[i].id # id THEN ts[i] ELSE Updated(ts[i], patch, n)]

\* the ids callers pass: the ids in the collection, the id just deleted, and an id
\* no task has
ArgIds ==
  {"zz"} \cup { tasks[i].id : i \in DOMAIN tasks }
         \cup { lastDeleted[i].id : i \in DOMAIN lastDeleted }

\* lines 127-139
UpdateTask(id, patch) ==
  /\ Called
  /\ tasks' = UpdateAll(tasks, id, patch, now)
  /\ lastOp' = Op("updateTask", id, patch)
  /\ closure' = lastDeleted
  /\ rt' = RtIdle
  /\ dd' = DdIdle
  /\ UNCHANGED <<loading, error, lastDeleted, fetchedRef, isMounted, pc, now, nextUid,
                 distinctLoad, tableVars>>

\* ------------------------------------------------------------- deleteTask
\* the value deleteTask hands to setLastDeleted (line 143-144)
DeleteTarget(ts, id, ld) == Find(ts, id)

KeepLast2(s) == IF Len(s) > 2 THEN Tail(s) ELSE s

\* lines 141-147
DeleteTask(id) ==
  /\ Called
  /\ lastDeleted' = DeleteTarget(tasks, id, lastDeleted)
  /\ tasks' = Filter(tasks, id)
  /\ closure' = lastDeleted'
  /\ lastOp' = Op("deleteTask", id, <<>>)
  /\ rt' = IF rt.stage = 1 /\ rt.task[1].id = id THEN [rt EXCEPT !.stage = 2] ELSE RtIdle
  /\ dd' = IF HasId(tasks, id)
           THEN [dels |-> KeepLast2(Append(IF dd.undo THEN <<>> ELSE dd.dels,
                            [id |-> id,
                             uids |-> { tasks[i].uid : i \in { j \in DOMAIN tasks : tasks[j].id = id } }])),
                 undo |-> FALSE]
           ELSE DdIdle
  /\ UNCHANGED <<loading, error, fetchedRef, isMounted, pc, now, nextUid,
                 distinctLoad, tableVars>>

\* ------------------------------------------------------------- undoDelete
\* lines 149-153: reads the lastDeleted its closure captured
UndoDelete ==
  /\ Called
  /\ IF closure = Null
     THEN UNCHANGED <<tasks, lastDeleted, closure>>
     ELSE /\ tasks' = closure \o tasks
          /\ lastDeleted' = Null
          /\ closure' = Null
  /\ lastOp' = Op("undoDelete", Undefined, <<>>)
  /\ rt' = IF rt.stage = 2 THEN [rt EXCEPT !.stage = 3] ELSE RtIdle
  /\ dd' = IF Len(dd.dels) > 0 /\ ~dd.undo THEN [dd EXCEPT !.undo = TRUE] ELSE DdIdle
  /\ UNCHANGED <<loading, error, fetchedRef, isMounted, pc, now, nextUid,
                 distinctLoad, tableVars>>

\* lines 149-153, called twice before React renders again: both calls run the same
\* callback, which reads the lastDeleted it captured, and both queued updaters
\* prev => [lastDeleted, ...prev] run at the commit
UndoDeleteTwice ==
  /\ Called
  /\ IF closure = Null
     THEN UNCHANGED <<tasks, lastDeleted, closure>>
     ELSE /\ tasks' = closure \o (closure \o tasks)
          /\ lastDeleted' = Null
          /\ closure' = Null
  /\ lastOp' = Op("undoDeleteTwice", Undefined, <<>>)
  /\ rt' = RtIdle
  /\ dd' = DdIdle
  /\ UNCHANGED <<loading, error, fetchedRef, isMounted, pc, now, nextUid,
                 distinctLoad, tableVars>>

\* lines 155-157
ClearHistory ==
  /\ Called
  /\ lastDeleted' = Null
  /\ closure' = Null
  /\ lastOp' = Op("clearHistory", Undefined, <<>>)
  /\ rt' = RtIdle
  /\ dd' = DdIdle
  /\ UNCHANGED <<tasks, loading, error, fetchedRef, isMounted, pc, now, nextUid,
                 distinctLoad, tableVars>>

\* -------------------------------------------------------------- TaskTable
\* the state of the useTasks hook and its observers
hookVars == <<tasks, loading, error, lastDeleted, fetchedRef, isMounted, pc, closure,
              now, nextUid, lastOp, rt, dd, calls, fetched, distinctLoad>>

\* the ids of the rows: t.id of the tasks prop, which a loaded task may lack
RowIds == {"a", "b", Undefined}

\* TaskTable.tsx line 137: open={!!deleteId}
DialogOpen(d) == d # NullId /\ Truthy(d)

\* TaskTable.tsx line 108: the delete button of the row with this id
ClickDelete(id) ==
  /\ deleteId' = id
  /\ clicked' = id
  /\ confirms' = IF ~DialogOpen(deleteId) /\ DialogOpen(id) THEN 0 ELSE confirms
  /\ lastUi' = "click"
  /\ UNCHANGED <<delivered, hookVars>>

\* TaskTable.tsx line 145: the Cancel button
CancelDialog ==
  /\ deleteId' = NullId
  /\ lastUi' = "cancel"
  /\ UNCHANGED <<clicked, confirms, delivered, hookVars>>

\* TaskTable.tsx line 137: onClose (backdrop click, Escape)
CloseDialog ==
  /\ deleteId' = NullId
  /\ lastUi' = "close"
  /\ UNCHANGED <<clicked, confirms, delivered, hookVars>>

\* handleConfirmDelete without setdeleteId(null): the dialog stays open
handleConfirmDelete_NoReset ==
  /\ Len(delivered) < MaxDelivered
  /\ IF DialogOpen(deleteId)
     THEN /\ delivered' = Append(delivered, deleteId)
          /\ confirms' = confirms + 1
          /\ UNCHANGED deleteId
     ELSE UNCHANGED <<delivered, confirms, deleteId>>
  /\ lastUi' = "confirm"
  /\ UNCHANGED <<clicked, hookVars>>

\* TaskTable.tsx lines 50-55: the Delete button of the dialog
handleConfirmDelete ==
  /\ Len(delivered) < MaxDelivered
  /\ IF DialogOpen(deleteId)
     THEN /\ delivered' = Append(delivered, deleteId)
          /\ confirms' = confirms + 1
          /\ deleteId' = NullId
     ELSE UNCHANGED <<delivered, confirms, deleteId>>
  /\ lastUi' = "confirm"
  /\ UNCHANGED <<clicked, hookVars>>

\* ---------------------------------------------------------- specification
\* the load alone, on every raw array
NextLoad ==
  \/ \E o \in FetchOutcomes : LoadSettle(o)
  \/ Unmount
  \/ Tick

SpecLoad == Init /\ [][NextLoad]_vars

\* the store: the load on the fixtures, and the callbacks
Next ==
  \/ \E o \in Fixtures : LoadSettle(o)
  \/ Unmount
  \/ Tick
  \/ \E task \in Payloads, r \in 0..(RandRange - 1) : AddTask(task, r)
  \/ \E id \in ArgIds, patch \in Patches : UpdateTask(id, patch)
  \/ \E id \in ArgIds : DeleteTask(id)
  \/ UndoDelete
  \/ ClearHistory

Spec == Init /\ [][Next]_vars

\* the store whose callers may call undoDelete twice within one event
NextBatched ==
  \/ Next
  \/ UndoDeleteTwice

SpecBatched == Init /\ [][NextBatched]_vars

\* the table alone: its buttons and its dialog
NextTable ==
  \/ \E id \in RowIds : ClickDelete(id)
  \/ CancelDialog
  \/ CloseDialog
  \/ handleConfirmDelete

SpecTable == Init /\ [][NextTable]_vars

\* ------------------------------------------------------------- properties
\* the tasks the store holds: the collection and the pending deletion
Alive == Range(tasks) \cup Range(lastDeleted)

\* the step is a call of the callback `name`
Did(name) == calls' = calls + 1 /\ lastOp'.name = name

\* the load has just written the result of a fetched JSON array, fetched.data
LoadedArray ==
  lastOp.name = "load" /\ fetched.kind = "json" /\ fetched.isArray /\ fetched.mounted

\* ... and normalizeTasks did not throw on it
Normalized == LoadedArray /\ ~NormalizeThrows(fetched.data, fetched.at)

\* C1: deleteTask(id) with an id that matches no task is a no-op: the collection is
\* unchanged and lastDeleted keeps the value it had, so a pending deletion stays
\* undoable.
C1_DeleteUnknownIdIsNoOp ==
  [][(Did("deleteTask") /\ ~lastOp'.hit)
       => (tasks' = tasks /\ lastDeleted' = lastDeleted /\ error' = error)]_vars

\* C2: after deleteTask(A), deleteTask(B), undoDelete() for two tasks A and B of the
\* collection, B is at the front of the collection, A is not in it and lastDeleted is
\* null; after the second delete A is in neither the collection nor lastDeleted.
C2_SingleLevelUndo ==
  /\ (Len(dd.dels) = 2 /\ ~dd.undo) =>
        \A ua \in dd.dels[1].uids : \A t \in Alive : t.uid # ua
  /\ (Len(dd.dels) = 2 /\ dd.undo) =>
        /\ lastDeleted = Null
        /\ \A ua \in dd.dels[1].uids : ua \notin Uids(tasks)
        /\ \A ub \in dd.dels[2].uids : tasks # <<>> /\ tasks[1].uid = ub

\* C3: from a Ready state, addTask(payload), deleteTask(<the new id>), undoDelete()
\* leaves the added task, equal in every field, at the front of the collection, every
\* task that was there before the add still there, and lastDeleted null.
C3_AddDeleteUndoRoundTrip ==
  rt.stage = 3 =>
    /\ tasks # <<>> /\ tasks[1] = rt.task[1]
    /\ \A i \in DOMAIN rt.pre : \E j \in DOMAIN tasks : tasks[j] = rt.pre[i]
    /\ lastDeleted = Null

\* C4: updateTask(id, patch) with an id no task has, for any patch, leaves the
\* collection equal to what it was (same tasks, same order, same fields), leaves
\* lastDeleted unchanged and sets no error.
C4_UpdateUnknownIdIsNoOp ==
  [][(Did("updateTask") /\ ~lastOp'.hit)
       => (tasks' = tasks /\ lastDeleted' = lastDeleted /\ error' = error)]_vars

C4_Witness ==
  /\ lastOp.name = "updateTask" /\ ~lastOp.hit /\ lastOp.pend
  /\ lastOp.patch = [status |-> "Done"]
  /\ \E t \in Range(tasks) : t.status = "Todo"

\* C5: no task put into the collection while the store is loading is lost when the
\* load completes.
C5_NoMutationLostByLoad ==
  [][(loading /\ ~loading')
       => \A i \in DOMAIN tasks : \E j \in DOMAIN tasks' : tasks'[j] = tasks[i]]_vars

\* the patch moves status to Done and does not name completedAt
MovesToDone(patch) ==
  /\ "status" \in DOMAIN patch
  /\ patch.status = "Done"
  /\ "completedAt" \notin DOMAIN patch

\* C6 as claimed: once a task's completedAt is set, no call (addTask, updateTask with
\* any patch, deleteTask, undoDelete, clearHistory) clears or changes it.
C6_CompletedAtMonotonic ==
  [][\A t \in Alive : t.completedAt # NoTime
        => \A t2 \in Alive' : t2.uid = t.uid => t2.completedAt = t.completedAt]_vars

\* C6 as amended: once a task's completedAt is set, no call clears or changes it,
\* except an updateTask whose patch itself names completedAt; in particular it
\* survives a move of status away from Done and back to Done.
C6_CompletedAtKeptUnlessPatched ==
  [][~(Did("updateTask") /\ "completedAt" \in DOMAIN lastOp'.patch)
       => \A t \in Alive : t.completedAt # NoTime
            => \A t2 \in Alive' : t2.uid = t.uid => t2.completedAt = t.completedAt]_vars

\* a task added as Done, moved to Todo and moved back to Done at a later time
C6_Witness ==
  /\ lastOp.name = "updateTask" /\ lastOp.was = "Todo"
  /\ lastOp.patch = [status |-> "Done"]
  /\ Len(tasks) = 1
  /\ tasks[1].title = "N"
  /\ tasks[1].status = "Done"
  /\ tasks[1].completedAt = tasks[1].createdAt
  /\ tasks[1].completedAt < lastOp.at

\* C7 as claimed: an updateTask whose patch moves a task's status from a non-terminal
\* value to Done and does not supply completedAt leaves the task with completedAt equal
\* to the current time, which is not earlier than the task's createdAt.
C7_DoneStampsNow ==
  [][Did("updateTask") => \A id \in ArgIds, patch \in Patches :
       (MovesToDone(patch) /\ UpdateTask(id, patch))
         => \A i \in DOMAIN tasks :
              (tasks[i].id = id /\ tasks[i].status # "Done")
                => /\ tasks'[i].completedAt = now
                   /\ tasks'[i].completedAt >= tasks'[i].createdAt]_vars

\* C7 as amended: such an updateTask sets completedAt to the current time when the
\* task had no completedAt and keeps the completedAt the task already had otherwise; a
\* completedAt set this way is not earlier than createdAt whenever the task's createdAt
\* is not itself later than the current time.
C7_DoneStampsNowIfUnset ==
  [][Did("updateTask") => \A id \in ArgIds, patch \in Patches :
       (MovesToDone(patch) /\ UpdateTask(id, patch))
         => \A i \in DOMAIN tasks :
              (tasks[i].id = id /\ tasks[i].status # "Done")
                => /\ tasks[i].completedAt = NoTime => tasks'[i].completedAt = now
                   /\ tasks[i].completedAt # NoTime
                        => tasks'[i].completedAt = tasks[i].completedAt
                   /\ (tasks[i].completedAt = NoTime /\ tasks'[i].createdAt <= now)
                        => tasks'[i].completedAt >= tasks'[i].createdAt]_vars

\* a task without completedAt was moved to Done some time after it was created
C7_Witness ==
  /\ lastOp.name = "updateTask" /\ lastOp.was = "Todo"
  /\ lastOp.patch = [status |-> "Done"]
  /\ Len(tasks) = 1
  /\ tasks[1].title = "Seed"
  /\ tasks[1].status = "Done"
  /\ tasks[1].completedAt = lastOp.at
  /\ tasks[1].createdAt < lastOp.at

\* C8: a fetched raw array never ends the load in the error state: error stays null
\* and the collection holds one normalized task per raw record.
C8_MalformedRecordNeverAborts ==
  LoadedArray => /\ error = NoError
                 /\ fetched.data # <<>> => Len(tasks) = Len(fetched.data)

\* the raw value is absent or not numeric
NonNumeric(v) == v \in {Undefined, "abc"}

\* C9: a raw record whose revenue is absent or non-numeric is normalized to revenue 0;
\* [{title: "X"}] is normalized to revenue 0, timeTaken 0, a synthesized createdAt and
\* no completedAt.
C9_RevenueDefaultsToZero ==
  Normalized =>
    \A i \in DOMAIN fetched.data :
      /\ NonNumeric(fetched.data[i].revenue) => tasks[i].revenue = 0
      /\ fetched.data[i].title = "X"
           => /\ tasks[i].revenue = 0
              /\ tasks[i].timeTaken = 0
              /\ tasks[i].createdAt = fetched.at - i * Day
              /\ tasks[i].completedAt = NoTime

\* both raw records lack createdAt, i before j
BothSynthesized(i, j) ==
  /\ i < j
  /\ ~Truthy(fetched.data[i].createdAt)
  /\ ~Truthy(fetched.data[j].createdAt)

\* C10 as claimed: of two raw records of one array that both lack createdAt, the one
\* at the smaller index gets the earlier synthesized createdAt.
C10_SynthesizedOrderFollowsIndex ==
  Normalized =>
    \A i, j \in DOMAIN fetched.data :
      BothSynthesized(i, j) => tasks[i].createdAt < tasks[j].createdAt

\* C10 as amended: of two raw records of one array that both lack createdAt, the one
\* at the smaller index gets the later synthesized createdAt, one day later per
\* position (synthesized createdAt strictly decreases with the index).
C10_SynthesizedOrderDecreasesWithIndex ==
  Normalized =>
    \A i, j \in DOMAIN fetched.data :
      BothSynthesized(i, j)
        => /\ tasks[i].createdAt > tasks[j].createdAt
           /\ tasks[i].createdAt = tasks[j].createdAt + (j - i) * Day

C10_Witness ==
  /\ Normalized
  /\ Len(fetched.data) = 3
  /\ BothSynthesized(1, 3)
  /\ Truthy(fetched.data[2].createdAt)
  /\ tasks[1].createdAt = tasks[3].createdAt + 2 * Day

\* the store with the premise that the fetch settles: load() resumes after its await
SpecLive == Spec /\ WF_vars(\E o \in Fixtures : LoadSettle(o))

\* the step makes the store Ready
BecomesReady == loading /\ ~loading'

\* the collection a successful load installs: the normalized list, or the fallback
\* set when that list is empty
Installed(f, n, u) ==
  IF f.isArray /\ f.data # <<>>
  THEN normalizeTasks(f.data, n, u)
  ELSE generateSalesTasks(SeedCount, n, u)

\* C11: when the store becomes Ready, exactly one of two outcomes holds: the fetch
\* succeeded, error is null and the load installed a non-empty collection (the
\* normalized list, or the fallback set when that list is empty or the body is no
\* array); or the fetch failed or answered with a non-success response, error is a
\* message and the load installed no tasks.
C11_LoadOutcome ==
  [][BecomesReady =>
       \/ /\ fetched'.kind = "json"
          /\ error' = NoError
          /\ tasks' # <<>>
          /\ tasks' = Installed(fetched', now, nextUid)
       \/ /\ fetched'.kind \in {"reject", "http"}
          /\ error' \notin {NoError, Undefined}
          /\ tasks' = tasks]_vars

\* C12: loading is true initially; if the fetch settles and the hook stays mounted,
\* loading eventually becomes false, whether the load succeeded, failed or threw in
\* normalization; once false it never becomes true again.
C12_TwoPhaseLifecycle ==
  /\ loading = TRUE
  /\ [][~loading => ~loading']_vars
  /\ <>(~loading \/ ~isMounted)

\* the load threw in normalization and the store is Ready with the error
C12_Witness ==
  /\ lastOp.name = "load" /\ fetched.mounted
  /\ fetched.kind = "json" /\ fetched.isArray
  /\ NormalizeThrows(fetched.data, fetched.at)
  /\ ~loading
  /\ error = "Invalid time value"

\* C13: if the effect's cleanup runs before the fetch settles, nothing is written
\* afterwards: tasks, error and loading keep the values they had at teardown, also in
\* the step in which the load resumes.
C13_TornDownLoadWritesNothing ==
  [][(~isMounted /\ pc = "fetching") => UNCHANGED <<tasks, error, loading>>]_vars

\* a task was added while loading, the hook was torn down, and the fetch then
\* delivered an array: the collection still holds the added task alone
C13_Witness ==
  /\ lastOp.name = "load" /\ ~fetched.mounted
  /\ fetched.kind = "json" /\ fetched.isArray /\ fetched.data # <<>>
  /\ ~NormalizeThrows(fetched.data, fetched.at)
  /\ pc = "settled"
  /\ loading
  /\ error = NoError
  /\ Len(tasks) = 1 /\ tasks[1].title = "N"

\* C14: addTask(payload) puts the new task at index 0 with every task that was in
\* the collection unchanged behind it in its order; the new task's createdAt is the
\* current time whatever the payload's createdAt, and its completedAt is that time if
\* the payload's status is Done and absent otherwise, whatever the payload's
\* completedAt.
C14_AddTaskPrepends ==
  [][Did("addTask") =>
       /\ Len(tasks') = Len(tasks) + 1
       /\ \A i \in DOMAIN tasks : tasks'[i + 1] = tasks[i]
       /\ tasks'[1].uid \notin Uids(tasks)
       /\ tasks'[1].createdAt = now
       /\ tasks'[1].status = "Done" => tasks'[1].completedAt = now
       /\ tasks'[1].status # "Done" => tasks'[1].completedAt = NoTime]_vars

\* a Todo payload that carried createdAt and completedAt 3 was added in front of a
\* loaded task
C14_Witness ==
  /\ lastOp.name = "addTask"
  /\ Len(tasks) = 2
  /\ tasks[1].title = "N" /\ tasks[1].status = "Todo"
  /\ tasks[1].createdAt = lastOp.at /\ lastOp.at # 3
  /\ tasks[1].completedAt = NoTime
  /\ tasks[2].title = "B"

\* C15: across updateTask (with any patch), deleteTask and undoDelete, every task
\* keeps the id and the createdAt it had when it entered the collection.
C15_CreationFieldsImmutable ==
  [][(Did("updateTask") \/ Did("deleteTask") \/ Did("undoDelete")) =>
       \A t \in Alive : \A t2 \in Alive' :
         t2.uid = t.uid => (t2.id = t.id /\ t2.createdAt = t.createdAt)]_vars

\* C16: starting from a loaded collection with pairwise distinct ids, after any
\* sequence of addTask (with a generated or a supplied id), updateTask, deleteTask,
\* undoDelete and clearHistory no two tasks of the collection share an id.
C16_IdsUnique == distinctLoad => DistinctIds(tasks)

\* C17: in every state after the initial load, deleteTask(id) with a matching id
\* removes exactly one task and lastDeleted becomes exactly that task.
C17_DeleteRemovesOne ==
  [][(Did("deleteTask") /\ lastOp'.hit /\ pc = "settled" /\ ~loading) =>
       /\ Len(tasks') = Len(tasks) - 1
       /\ lastDeleted' # Null
       /\ \E i \in DOMAIN tasks :
            /\ tasks[i] = lastDeleted'[1]
            /\ tasks' = [k \in 1..(Len(tasks) - 1) |->
                           IF k < i THEN tasks[k] ELSE tasks[k + 1]]]_vars

\* the step moves the task from a non-terminal status into Done
IntoDone(t, t2) == t.status # "Done" /\ t2.status = "Done"

\* C18: updateTask(id, patch) keeps the collection's length and the position of every
\* task, changes on a matching task only the fields the patch names (and completedAt
\* on a move into Done), and leaves every other task and lastDeleted unchanged;
\* deleteTask(id) leaves every task with another id unchanged and in the same relative
\* order.
C18_FrameOfUpdateAndDelete ==
  [][/\ Did("updateTask") => \A id \in ArgIds, patch \in Patches :
          UpdateTask(id, patch) =>
            /\ Len(tasks') = Len(tasks)
            /\ lastDeleted' = lastDeleted
            /\ \A i \in DOMAIN tasks :
                 /\ tasks'[i].uid = tasks[i].uid
                 /\ tasks[i].id # id => tasks'[i] = tasks[i]
                 /\ \A f \in DOMAIN tasks[i] :
                      (/\ f \notin DOMAIN patch
                       /\ ~(f = "completedAt" /\ IntoDone(tasks[i], tasks'[i])))
                        => tasks'[i][f] = tasks[i][f]
     /\ Did("deleteTask") => \A id \in ArgIds :
          DeleteTask(id) =>
            LET keep == { i \in DOMAIN tasks : tasks[i].id # id } IN
            /\ Len(tasks') = Cardinality(keep)
            /\ Range(tasks') = { tasks[i] : i \in keep }
            /\ \A i, j \in keep : i < j =>
                 \E a, b \in DOMAIN tasks' :
                   a < b /\ tasks'[a] = tasks[i] /\ tasks'[b] = tasks[j]]_vars

\* of three loaded tasks the first was deleted and the second then patched: it is
\* still in front of the third, which is as it was loaded, and the deletion is pending
C18_Witness ==
  /\ lastOp.name = "updateTask" /\ lastOp.hit /\ lastOp.pend
  /\ lastOp.patch = [id |-> "b", title |-> "T", createdAt |-> 4]
  /\ lastDeleted # Null /\ lastDeleted[1].title = "X"
  /\ Len(tasks) = 2
  /\ tasks[1].title = "T" /\ tasks[1].status = "Todo" /\ tasks[1].completedAt = 4
  /\ tasks[2].title = "A" /\ tasks[2].id = "a"

\* C19: after one deleteTask, any number of undoDelete calls, two calls made before
\* the hook has rendered again included, put the deleted task back exactly once: the
\* collection never holds the same task twice.
C19_UndoRestoresOnce ==
  \A i, j \in DOMAIN tasks : tasks[i].uid = tasks[j].uid => i = j

\* C20: onDelete is called only by the dialog's confirm action, at most once per
\* opened dialog, with the id of the row whose delete button was clicked last, and the
\* pending id is null afterwards; a click on a row's delete button, Cancel and closing
\* the dialog never call onDelete.
C20_DeleteOnlyOnConfirm ==
  /\ [][/\ delivered' # delivered =>
            /\ lastUi' = "confirm"
            /\ DialogOpen(deleteId)
            /\ delivered' = Append(delivered, clicked)
            /\ deleteId' = NullId
        /\ lastUi' \in {"click", "cancel", "close"} => delivered' = delivered]_vars
  /\ [](confirms <= 1)

\* two dialogs were opened and confirmed, for row a and then for row b
C20_Witness ==
  /\ lastUi = "confirm"
  /\ delivered = <<"a", "b">>
  /\ clicked = "b"
  /\ confirms = 1
  /\ deleteId = NullId

====
